---- MODULE Spec2Model ----
(***************************************************************************)
(* State-machine model of taskflow_bridge::TaskflowBridge                  *)
(* (src/src/DeepTreeEcho/taskflow_bridge.cpp).                             *)
(*                                                                         *)
(* One bridge object, one calling thread (several in SpecRace), and the    *)
(* worker pool of the executor it owns.  A tf::Taskflow is the sequence    *)
(* of the tasks emplaced into it (a task is its position in that           *)
(* sequence) plus the bag of precede-edges between tasks; a tf::Task       *)
(* handle is the position of the task it refers to.                        *)
(*                                                                         *)
(* The executor is the Taskflow library's; its scheduling is modelled as   *)
(* the Kahn-style scheduler of the specification, with the choice among    *)
(* eligible tasks left open.                                               *)
(*                                                                         *)
(* Specifications:                                                         *)
(*   Spec       an arbitrary caller of the graph operations, and workers   *)
(*   SpecAlloc  the operations that allocate identifiers, in any mix       *)
(*   SpecBuild  an arbitrary caller that only builds graphs                *)
(*   SpecDag    a caller that builds one well-formed graph and runs it     *)
(*   SpecCodec  a caller that encodes one graph as a level sequence and    *)
(*              decodes it again                                           *)
(*   SpecRace   threads that call create_taskflow concurrently             *)
(***************************************************************************)
EXTENDS Integers, Sequences, FiniteSets, Bags, TLC

VARIABLES
    next_id_,       \* int next_id_
    taskflows_,     \* std::map<int, tf::Taskflow>
    task_handles_,  \* std::map<int, std::map<int, tf::Task>>
    atomspaces_,    \* std::map<int, shared_ptr<AtomSpace>>: id -> atoms held
    atoms_,         \* std::map<int, shared_ptr<Atom>>: atom id -> atom
    tensors_,       \* std::map<int, shared_ptr<CognitiveTensor>>: id -> shape
    executor_,      \* tf::Executor: taskflow id -> state of its submitted runs
    ret,            \* outcome of the caller's last call: [op, err, val]
    allocated,      \* history: the identifiers returned so far, in order
    inserted,       \* history: per taskflow, the (from, to) tasks wired by precede
    callers         \* the threads that call concurrently: thread -> [pc, id]

vars == <<next_id_, taskflows_, task_handles_, atomspaces_, atoms_, tensors_,
          executor_, ret, allocated, inserted, callers>>

bridge == <<next_id_, taskflows_, task_handles_, atomspaces_, atoms_, tensors_>>

----------------------------------------------------------------------------
(* Bounds of the model *)

\* identifiers one bridge hands out
MaxId == 4
\* taskflows an arbitrary caller creates
MaxGraphs == 1
\* tasks an arbitrary caller emplaces, over all its taskflows
MaxTasks == 2
\* precede-edges an arbitrary caller adds, over all its taskflows
MaxEdges == 1
\* runs of one taskflow queued behind its running one
MaxRuns == 0
\* tasks and precede-edges of a caller that only builds
MaxBuildTasks == 2
MaxBuildEdges == 2
\* nodes of the graph a contract-respecting caller builds
MaxNodes == 4
\* length of a level sequence handed to tree_to_taskgraph
MaxSeqLen == 4
\* largest depth value in a level sequence
MaxDepth == 2
\* threads that call the bridge concurrently, and calls they make in all
MaxCallers == 2
MaxCalls == 3

\* TaskflowBridge bridge(4): the worker pool of the standalone driver
NumThreads == 4

\* handles a caller may present: every identifier the bridge can have handed
\* out, and one it never has
Handles == 1..(MaxGraphs + 1)
\* local task ids and names a caller may present
LocalIds == {1, 2}
Names == {"X", "Y"}
\* the name a caller that also runs its graphs gives its tasks
RunNames == {"X"}
AtomTypes == {1}
AtomNames == {"Concept1"}
Shapes == {<<3, 3>>}
\* the threads that call the bridge concurrently
Callers == 1..MaxCallers
\* a thread that is not inside a call of the bridge
NotCalling == [pc |-> "idle", id |-> 0]

----------------------------------------------------------------------------
(* Helpers *)

NoEntry == [x \in {} |-> 0]

\* m[k] = v on a std::map
Put(m, k, v) == [x \in (DOMAIN m) \cup {k} |-> IF x = k THEN v ELSE m[x]]

\* a call's outcome: the std::runtime_error it threw, or "ok" and the value
\* it returned (0 for a void function)
Thrown(op, msg) == [op |-> op, err |-> msg, val |-> 0]
Returned(op, v) == [op |-> op, err |-> "ok", val |-> v]

\* tf::Taskflow()
EmptyTaskflow == [tasks |-> <<>>, succ |-> EmptyBag]

\* taskflow.emplace(...) followed by task.name(name): the new task is the last
emplace(tf, name) == [tf EXCEPT !.tasks = Append(@, name)]

\* precede with its two tasks exchanged
precede_swapped(tf, a, b) == [tf EXCEPT !.succ = @ (+) SetToBag({<<b, a>>})]

\* a.precede(b): b is appended to a's successors (a repeated call appends again)
precede(tf, a, b) == [tf EXCEPT !.succ = @ (+) SetToBag({<<a, b>>})]

Tasks(tf) == 1..Len(tf.tasks)

----------------------------------------------------------------------------
(* The executor: a pool of NumThreads workers running submitted taskflows.  *)
(* A run record per submitted taskflow: whether a run is in flight, how     *)
(* many further runs are queued behind it, each task's status in the        *)
(* current (or last) run, whether the taskflow was modified while in        *)
(* flight, and how the last run ended.                                      *)

Status(e, t) == IF t \in DOMAIN e.st THEN e.st[t] ELSE "idle"

Preds(tf, t) == {p \in Tasks(tf) : CopiesIn(<<p, t>>, tf.succ) > 0}

\* a task is eligible when all its prerequisites have completed; a taskflow
\* modified while in flight is a data race, after which any idle task may
\* be picked up
Eligible(tf, e, t) ==
    /\ Status(e, t) = "idle"
    /\ e.raced \/ \A p \in Preds(tf, t) : Status(e, p) = "done"

RunningIn(tf, e) == {t \in Tasks(tf) : Status(e, t) = "running"}

Busy == {<<g, t>> \in UNION {{g} \X Tasks(taskflows_[g]) : g \in DOMAIN executor_} :
            executor_[g].active /\ Status(executor_[g], t) = "running"}

FreshRun(tf, queued) ==
    [active |-> TRUE, queued |-> queued, raced |-> FALSE, outcome |-> "running",
     st |-> [t \in Tasks(tf) |-> "idle"]]

Outcome(tf, e) ==
    IF \A t \in Tasks(tf) : Status(e, t) = "done" THEN "ok" ELSE "CycleDetected"

\* the end of a run: no node is running and none is eligible.  The next
\* queued run, if any, starts at once.
Settle(tf, e) ==
    IF ~e.active \/ RunningIn(tf, e) # {} \/ \E t \in Tasks(tf) : Eligible(tf, e, t)
    THEN e
    ELSE IF e.queued = 0
    THEN [e EXCEPT !.active = FALSE, !.outcome = Outcome(tf, e)]
    ELSE LET n == FreshRun(tf, e.queued - 1) IN
         IF \E t \in Tasks(tf) : Eligible(tf, n, t)
         THEN n
         ELSE [n EXCEPT !.active = FALSE, !.queued = 0, !.outcome = Outcome(tf, n)]

\* executor_.run(taskflow)
run(g) ==
    IF g \in DOMAIN executor_ /\ executor_[g].active
    THEN [executor_[g] EXCEPT !.queued = @ + 1]
    ELSE Settle(taskflows_[g], FreshRun(taskflows_[g], 0))

\* everything submitted has finished
AllIdle == \A g \in DOMAIN executor_ : ~executor_[g].active

\* a structural change of taskflow g: while one of its runs is in flight it
\* races with the workers; otherwise the record of its last run is dropped
Touched(g) ==
    IF g \in DOMAIN executor_ /\ executor_[g].active
    THEN [executor_ EXCEPT ![g].raced = TRUE]
    ELSE [h \in (DOMAIN executor_) \ {g} |-> executor_[h]]

\* a worker picks up an eligible task
Dispatch(g, t) ==
    /\ g \in DOMAIN executor_
    /\ executor_[g].active
    /\ t \in Tasks(taskflows_[g])
    /\ Eligible(taskflows_[g], executor_[g], t)
    /\ Cardinality(Busy) < NumThreads
    /\ executor_' = [executor_ EXCEPT ![g].st = Put(@, t, "running")]
    /\ UNCHANGED <<bridge, ret, allocated, inserted, callers>>

\* a worker finishes a task; the run ends with its last task
Complete(g, t) ==
    /\ g \in DOMAIN executor_
    /\ executor_[g].active
    /\ t \in Tasks(taskflows_[g])
    /\ Status(executor_[g], t) = "running"
    /\ LET e == [executor_[g] EXCEPT !.st = Put(@, t, "done")]
           s == Settle(taskflows_[g], e)
       IN  \E stop \in (IF e.raced /\ RunningIn(taskflows_[g], e) = {}
                        THEN BOOLEAN ELSE {FALSE}) :
              executor_' = [executor_ EXCEPT ![g] =
                               IF stop
                               THEN [e EXCEPT !.active = FALSE, !.queued = 0,
                                              !.outcome = Outcome(taskflows_[g], e)]
                               ELSE s]
    /\ UNCHANGED <<bridge, ret, allocated, inserted, callers>>

----------------------------------------------------------------------------
(* The bridge's operations *)

Throw(op, msg) ==
    /\ ret' = Thrown(op, msg)
    /\ UNCHANGED <<bridge, executor_, allocated, inserted, callers>>

create_taskflow ==
    LET id == next_id_ IN
    /\ next_id_' = next_id_ + 1
    /\ taskflows_' = Put(taskflows_, id, EmptyTaskflow)
    /\ task_handles_' = Put(task_handles_, id, NoEntry)
    /\ ret' = Returned("create_taskflow", id)
    /\ allocated' = Append(allocated, id)
    /\ inserted' = Put(inserted, id, {})
    /\ UNCHANGED <<atomspaces_, atoms_, tensors_, executor_, callers>>

\* add_task without its find() check: taskflows_[taskflow_id] then
\* default-constructs the missing taskflow
add_task_unchecked(taskflow_id, task_id, name) ==
    LET old == IF taskflow_id \in DOMAIN taskflows_
               THEN taskflows_[taskflow_id] ELSE EmptyTaskflow
        tf == emplace(old, name)
        handles == IF taskflow_id \in DOMAIN task_handles_
                   THEN task_handles_[taskflow_id] ELSE NoEntry
    IN  /\ taskflows_' = Put(taskflows_, taskflow_id, tf)
        /\ task_handles_' = Put(task_handles_, taskflow_id,
                                Put(handles, task_id, Len(tf.tasks)))
        /\ executor_' = Touched(taskflow_id)
        /\ ret' = Returned("add_task", 0)
        /\ UNCHANGED <<next_id_, atomspaces_, atoms_, tensors_, allocated, inserted, callers>>

add_task(taskflow_id, task_id, name) ==
    IF taskflow_id \notin DOMAIN taskflows_
    THEN Throw("add_task", "Taskflow not found: ")
    ELSE LET tf == emplace(taskflows_[taskflow_id], name)
             task == Len(tf.tasks)
             handles == IF taskflow_id \in DOMAIN task_handles_
                        THEN task_handles_[taskflow_id] ELSE NoEntry
         IN  /\ taskflows_' = [taskflows_ EXCEPT ![taskflow_id] = tf]
             /\ task_handles_' = Put(task_handles_, taskflow_id,
                                     Put(handles, task_id, task))
             /\ executor_' = Touched(taskflow_id)
             /\ ret' = Returned("add_task", 0)
             /\ UNCHANGED <<next_id_, atomspaces_, atoms_, tensors_,
                            allocated, inserted, callers>>

\* add_dependency that checks from_task only: handles[to_task] then
\* default-constructs an empty handle under the missing id
add_dependency_half_checked(taskflow_id, from_task, to_task) ==
    IF taskflow_id \notin DOMAIN task_handles_
    THEN Throw("add_dependency", "Taskflow not found")
    ELSE LET handles == task_handles_[taskflow_id] IN
         IF from_task \notin DOMAIN handles
         THEN Throw("add_dependency", "Task not found")
         ELSE IF to_task \notin DOMAIN handles
         THEN /\ task_handles_' = [task_handles_ EXCEPT ![taskflow_id] =
                        Put(@, to_task, 0)]
              /\ ret' = Returned("add_dependency", 0)
              /\ UNCHANGED <<next_id_, taskflows_, atomspaces_, atoms_, tensors_,
                             executor_, allocated, inserted, callers>>
         ELSE /\ taskflows_' = [taskflows_ EXCEPT ![taskflow_id] =
                        precede(@, handles[from_task], handles[to_task])]
              /\ inserted' = [inserted EXCEPT ![taskflow_id] =
                        @ \cup {<<handles[from_task], handles[to_task]>>}]
              /\ executor_' = Touched(taskflow_id)
              /\ ret' = Returned("add_dependency", 0)
              /\ UNCHANGED <<next_id_, task_handles_, atomspaces_, atoms_,
                             tensors_, allocated, callers>>

\* add_dependency that indexes task_handles_[taskflow_id] instead of
\* looking it up with find(): an unknown handle gets an empty handle map
add_dependency_indexing(taskflow_id, from_task, to_task) ==
    LET known == taskflow_id \in DOMAIN task_handles_
        handles == IF known THEN task_handles_[taskflow_id] ELSE NoEntry
    IN  IF from_task \notin DOMAIN handles \/ to_task \notin DOMAIN handles
        THEN /\ task_handles_' = IF known THEN task_handles_
                                 ELSE Put(task_handles_, taskflow_id, NoEntry)
             /\ ret' = Thrown("add_dependency", "Task not found")
             /\ UNCHANGED <<next_id_, taskflows_, atomspaces_, atoms_, tensors_,
                            executor_, allocated, inserted, callers>>
        ELSE /\ taskflows_' = [taskflows_ EXCEPT ![taskflow_id] =
                       precede(@, handles[from_task], handles[to_task])]
             /\ inserted' = [inserted EXCEPT ![taskflow_id] =
                       @ \cup {<<handles[from_task], handles[to_task]>>}]
             /\ executor_' = Touched(taskflow_id)
             /\ ret' = Returned("add_dependency", 0)
             /\ UNCHANGED <<next_id_, task_handles_, atomspaces_, atoms_,
                            tensors_, allocated, callers>>

add_dependency(taskflow_id, from_task, to_task) ==
    IF taskflow_id \notin DOMAIN task_handles_
    THEN Throw("add_dependency", "Taskflow not found")
    ELSE LET handles == task_handles_[taskflow_id] IN
         IF from_task \notin DOMAIN handles \/ to_task \notin DOMAIN handles
         THEN Throw("add_dependency", "Task not found")
         ELSE /\ taskflows_' = [taskflows_ EXCEPT ![taskflow_id] =
                        precede(@, handles[from_task], handles[to_task])]
              /\ inserted' = [inserted EXCEPT ![taskflow_id] =
                        @ \cup {<<handles[from_task], handles[to_task]>>}]
              /\ executor_' = Touched(taskflow_id)
              /\ ret' = Returned("add_dependency", 0)
              /\ UNCHANGED <<next_id_, task_handles_, atomspaces_, atoms_,
                             tensors_, allocated, callers>>

execute_taskflow(taskflow_id) ==
    IF taskflow_id \notin DOMAIN taskflows_
    THEN Throw("execute_taskflow", "Taskflow not found")
    ELSE /\ executor_' = Put(executor_, taskflow_id, run(taskflow_id))
         /\ ret' = Returned("execute_taskflow", 0)
         /\ UNCHANGED <<bridge, allocated, inserted, callers>>

\* wait_taskflow that waits for the runs of taskflow_id only
wait_taskflow_scoped(taskflow_id) ==
    /\ taskflow_id \in DOMAIN executor_ => ~executor_[taskflow_id].active
    /\ ret' = Returned("wait_taskflow", 0)
    /\ UNCHANGED <<bridge, executor_, allocated, inserted, callers>>

\* executor_.wait_for_all() blocks the caller until everything submitted has
\* finished; the call is taken at the moment it returns.  The argument is
\* not used.
wait_taskflow(taskflow_id) ==
    /\ AllIdle
    /\ ret' = Returned("wait_taskflow", 0)
    /\ UNCHANGED <<bridge, executor_, allocated, inserted, callers>>

create_atomspace ==
    LET id == next_id_ IN
    /\ next_id_' = next_id_ + 1
    /\ atomspaces_' = Put(atomspaces_, id, {})
    /\ ret' = Returned("create_atomspace", id)
    /\ allocated' = Append(allocated, id)
    /\ UNCHANGED <<taskflows_, task_handles_, atoms_, tensors_, executor_, inserted, callers>>

\* add_atom that reads next_id_ without advancing it
add_atom_reuse(space_id, atom_type, name) ==
    IF space_id \notin DOMAIN atomspaces_
    THEN Throw("add_atom", "AtomSpace not found")
    ELSE LET atom == <<atom_type, name>>
             atom_id == next_id_
         IN  /\ atomspaces_' = [atomspaces_ EXCEPT ![space_id] = @ \cup {atom}]
             /\ atoms_' = Put(atoms_, atom_id, atom)
             /\ ret' = Returned("add_atom", atom_id)
             /\ allocated' = Append(allocated, atom_id)
             /\ UNCHANGED <<next_id_, taskflows_, task_handles_, tensors_,
                            executor_, inserted, callers>>

add_atom(space_id, atom_type, name) ==
    IF space_id \notin DOMAIN atomspaces_
    THEN Throw("add_atom", "AtomSpace not found")
    ELSE LET atom == <<atom_type, name>>
             atom_id == next_id_
         IN  /\ atomspaces_' = [atomspaces_ EXCEPT ![space_id] = @ \cup {atom}]
             /\ next_id_' = next_id_ + 1
             /\ atoms_' = Put(atoms_, atom_id, atom)
             /\ ret' = Returned("add_atom", atom_id)
             /\ allocated' = Append(allocated, atom_id)
             /\ UNCHANGED <<taskflows_, task_handles_, tensors_, executor_, inserted, callers>>

create_tensor(shape) ==
    LET id == next_id_ IN
    /\ next_id_' = next_id_ + 1
    /\ tensors_' = Put(tensors_, id, shape)
    /\ ret' = Returned("create_tensor", id)
    /\ allocated' = Append(allocated, id)
    /\ UNCHANGED <<taskflows_, task_handles_, atomspaces_, atoms_, executor_, inserted, callers>>


\* "task_" + std::to_string(i)
TaskName(i) == "task_" \o ToString(i)

\* the parent scan run upwards from 0: the first match, not the nearest
RECURSIVE FirstMatch(_, _, _, _)
FirstMatch(level_sequence, i, k, j) ==
    IF k > j THEN -1
    ELSE IF level_sequence[k + 1] = level_sequence[i + 1] - 1 THEN k
    ELSE FirstMatch(level_sequence, i, k + 1, j)

FindParent_first(level_sequence, i, j) == FirstMatch(level_sequence, i, 0, j)

\* the parent scan started at the last position of the sequence instead of
\* at i - 1
RECURSIVE LastMatch(_, _, _)
LastMatch(level_sequence, i, k) ==
    IF k < 0 THEN -1
    ELSE IF level_sequence[k + 1] = level_sequence[i + 1] - 1 THEN k
    ELSE LastMatch(level_sequence, i, k - 1)

FindParent_fromEnd(level_sequence, i, j) ==
    LastMatch(level_sequence, i, Len(level_sequence) - 1)

\* the inner loop of tree_to_taskgraph: for (int j = i - 1; j >= 0; --j), the
\* first j whose level is level_sequence[i] - 1, or -1 when the loop runs out
\* (positions are 0-based as in the code; level_sequence[i] is seq[i + 1])
RECURSIVE FindParent(_, _, _)
FindParent(level_sequence, i, j) ==
    IF j < 0 THEN -1
    ELSE IF level_sequence[j + 1] = level_sequence[i + 1] - 1 THEN j
    ELSE FindParent(level_sequence, i, j - 1)

\* first loop: add_task(taskflow_id, i, "task_i") for i = 0 .. size-1
RECURSIVE TreeTasks(_, _, _)
TreeTasks(b, level_sequence, i) ==
    IF i >= Len(level_sequence) THEN b
    ELSE LET tf == emplace(b.tf, TaskName(i)) IN
         TreeTasks([b EXCEPT !.tf = tf, !.handles = Put(@, i, Len(tf.tasks))],
                   level_sequence, i + 1)

\* second loop: add_dependency(taskflow_id, j, i) for i = 1 .. size-1, when a
\* parent j was found; its "Task not found" leaves the loop and the function
RECURSIVE TreeDeps(_, _, _)
TreeDeps(b, level_sequence, i) ==
    IF i >= Len(level_sequence) \/ b.err # "ok" THEN b
    ELSE LET j == FindParent(level_sequence, i, i - 1) IN
         TreeDeps(IF j < 0 THEN b
                  ELSE IF j \notin DOMAIN b.handles \/ i \notin DOMAIN b.handles
                  THEN [b EXCEPT !.err = "Task not found"]
                  ELSE [b EXCEPT !.tf = precede(@, b.handles[j], b.handles[i]),
                                 !.ins = @ \cup {<<b.handles[j], b.handles[i]>>}],
                  level_sequence, i + 1)

tree_to_taskgraph(level_sequence) ==
    LET taskflow_id == next_id_
        b0 == [tf |-> EmptyTaskflow, handles |-> NoEntry, ins |-> {}, err |-> "ok"]
        b == TreeDeps(TreeTasks(b0, level_sequence, 0), level_sequence, 1)
    IN  /\ next_id_' = next_id_ + 1
        /\ taskflows_' = Put(taskflows_, taskflow_id, b.tf)
        /\ task_handles_' = Put(task_handles_, taskflow_id, b.handles)
        /\ ret' = IF b.err = "ok" THEN Returned("tree_to_taskgraph", taskflow_id)
                  ELSE Thrown("tree_to_taskgraph", b.err)
        /\ allocated' = IF b.err = "ok" THEN Append(allocated, taskflow_id)
                        ELSE allocated
        /\ inserted' = Put(inserted, taskflow_id, b.ins)
        /\ UNCHANGED <<atomspaces_, atoms_, tensors_, executor_, callers>>

\* taskgraph_to_tree: the vector it declares is returned as declared, empty,
\* on both paths: when the handle is unknown, and after the place where the
\* traversal of the dependencies would be
taskgraph_to_tree(taskflow_id) ==
    LET level_sequence == <<>> IN
    IF taskflow_id \notin DOMAIN task_handles_
    THEN /\ ret' = Returned("taskgraph_to_tree", level_sequence)
         /\ UNCHANGED <<bridge, executor_, allocated, inserted, callers>>
    ELSE /\ ret' = Returned("taskgraph_to_tree", level_sequence)
         /\ UNCHANGED <<bridge, executor_, allocated, inserted, callers>>

----------------------------------------------------------------------------
(* The bridge driven by an arbitrary caller *)

Init ==
    /\ next_id_ = 1
    /\ taskflows_ = NoEntry
    /\ task_handles_ = NoEntry
    /\ atomspaces_ = NoEntry
    /\ atoms_ = NoEntry
    /\ tensors_ = NoEntry
    /\ executor_ = NoEntry
    /\ ret = Returned("TaskflowBridge", 0)
    /\ allocated = <<>>
    /\ inserted = NoEntry
    /\ callers = [t \in Callers |-> NotCalling]

RECURSIVE SumOver(_, _)
SumOver(f, S) ==
    IF S = {} THEN 0
    ELSE LET x == CHOOSE y \in S : TRUE IN f[x] + SumOver(f, S \ {x})

TotalTasks ==
    SumOver([g \in DOMAIN taskflows_ |-> Len(taskflows_[g].tasks)], DOMAIN taskflows_)

TotalEdges ==
    SumOver([g \in DOMAIN taskflows_ |-> BagCardinality(taskflows_[g].succ)],
            DOMAIN taskflows_)

Min(a, b) == IF a < b THEN a ELSE b

LevelSeqs(n) == UNION {[1..k -> 0..MaxDepth] : k \in 0..Min(n, MaxSeqLen)}

CreateTaskflow ==
    /\ Cardinality(DOMAIN taskflows_) < MaxGraphs
    /\ create_taskflow

AddTask ==
    \E g \in Handles, id \in LocalIds, name \in RunNames :
        /\ g \in DOMAIN taskflows_ => TotalTasks < MaxTasks
        /\ add_task(g, id, name)

AddDependency ==
    \E g \in Handles, from \in LocalIds, to \in LocalIds :
        /\ TotalEdges < MaxEdges
        /\ add_dependency(g, from, to)

ExecuteTaskflow ==
    \E g \in Handles :
        /\ (g \in DOMAIN executor_ /\ executor_[g].active) => executor_[g].queued < MaxRuns
        /\ execute_taskflow(g)

WaitTaskflow == \E g \in Handles : wait_taskflow(g)

TreeToTaskgraph ==
    /\ Cardinality(DOMAIN taskflows_) < MaxGraphs
    /\ \E seq \in LevelSeqs(MaxTasks - TotalTasks) : tree_to_taskgraph(seq)

WorkerDispatch == \E g \in DOMAIN executor_ : \E t \in Tasks(taskflows_[g]) : Dispatch(g, t)

WorkerComplete == \E g \in DOMAIN executor_ : \E t \in Tasks(taskflows_[g]) : Complete(g, t)

Next ==
    \/ CreateTaskflow
    \/ AddTask
    \/ AddDependency
    \/ ExecuteTaskflow
    \/ WaitTaskflow
    \/ TreeToTaskgraph
    \/ WorkerDispatch
    \/ WorkerComplete

Spec == Init /\ [][Next]_vars

----------------------------------------------------------------------------
(* The handle registry: every operation that allocates an identifier, in any *)
(* mix                                                                      *)

AllocTaskflow ==
    /\ next_id_ <= MaxId
    /\ create_taskflow

AllocAtomspace ==
    /\ next_id_ <= MaxId
    /\ create_atomspace

AllocAtom ==
    \E s \in 1..(MaxId + 1), ty \in AtomTypes, name \in AtomNames :
        /\ s \in DOMAIN atomspaces_ => next_id_ <= MaxId
        /\ add_atom(s, ty, name)

AllocTensor ==
    /\ next_id_ <= MaxId
    /\ \E shape \in Shapes : create_tensor(shape)

AllocTree ==
    /\ next_id_ <= MaxId
    /\ \E seq \in LevelSeqs(1) : tree_to_taskgraph(seq)

NextAlloc ==
    \/ AllocTaskflow
    \/ AllocAtomspace
    \/ AllocAtom
    \/ AllocTensor
    \/ AllocTree

SpecAlloc == Init /\ [][NextAlloc]_vars

----------------------------------------------------------------------------
(* A caller that only builds graphs: arbitrary add_task / add_dependency     *)
(* calls, nothing is run                                                     *)

BuildCreate ==
    /\ next_id_ = 1
    /\ create_taskflow

BuildAddTask ==
    \E g \in 1..2, id \in LocalIds, name \in Names :
        /\ g \in DOMAIN taskflows_ => TotalTasks < MaxBuildTasks
        /\ add_task(g, id, name)

BuildAddDependency ==
    \E g \in 1..2, from \in LocalIds, to \in LocalIds :
        /\ TotalEdges < MaxBuildEdges
        /\ add_dependency(g, from, to)

NextBuild ==
    \/ BuildCreate
    \/ BuildAddTask
    \/ BuildAddDependency

SpecBuild == Init /\ [][NextBuild]_vars

----------------------------------------------------------------------------
(* A caller that keeps to the contract: it builds one graph, by hand with    *)
(* fresh local ids and edges from a lower to a higher id, or from a level    *)
(* sequence, and changes it no more once it has been run                     *)

FreshLocalId(handles) ==
    IF DOMAIN handles = {} THEN 1
    ELSE (CHOOSE m \in DOMAIN handles : \A k \in DOMAIN handles : k <= m) + 1

DagCreate ==
    /\ next_id_ = 1
    /\ create_taskflow

DagTree ==
    /\ next_id_ = 1
    /\ \E seq \in LevelSeqs(MaxSeqLen) : tree_to_taskgraph(seq)

DagAddTask ==
    \E g \in DOMAIN taskflows_, name \in RunNames :
        /\ g \notin DOMAIN executor_
        /\ Len(taskflows_[g].tasks) < MaxNodes
        /\ add_task(g, FreshLocalId(task_handles_[g]), name)

DagAddDependency ==
    \E g \in DOMAIN taskflows_ :
        \E from \in DOMAIN task_handles_[g], to \in DOMAIN task_handles_[g] :
            /\ g \notin DOMAIN executor_
            /\ from < to
            /\ <<task_handles_[g][from], task_handles_[g][to]>> \notin inserted[g]
            /\ add_dependency(g, from, to)

DagExecute ==
    \E g \in DOMAIN taskflows_ :
        /\ ~(g \in DOMAIN executor_ /\ executor_[g].active)
        /\ execute_taskflow(g)

DagWait == \E g \in 1..2 : wait_taskflow(g)

NextDag ==
    \/ DagCreate
    \/ DagTree
    \/ DagAddTask
    \/ DagAddDependency
    \/ DagExecute
    \/ DagWait
    \/ WorkerDispatch
    \/ WorkerComplete

SpecDag == Init /\ [][NextDag]_vars

----------------------------------------------------------------------------
(* A caller of the tree codec: it builds one graph (handle 1), by hand or    *)
(* from a level sequence, encodes it with taskgraph_to_tree, and decodes     *)
(* the sequence it got back with tree_to_taskgraph (handle 2)                *)

CodecCreate ==
    /\ next_id_ = 1
    /\ create_taskflow

CodecTree ==
    /\ next_id_ = 1
    /\ \E seq \in LevelSeqs(MaxSeqLen) : tree_to_taskgraph(seq)

CodecAddTask ==
    /\ next_id_ = 2
    /\ Len(taskflows_[1].tasks) < MaxNodes
    /\ \E name \in RunNames : add_task(1, FreshLocalId(task_handles_[1]), name)

CodecAddDependency ==
    /\ next_id_ = 2
    /\ \E from \in DOMAIN task_handles_[1], to \in DOMAIN task_handles_[1] :
          /\ from < to
          /\ <<task_handles_[1][from], task_handles_[1][to]>> \notin inserted[1]
          /\ add_dependency(1, from, to)

CodecEncode ==
    /\ next_id_ = 2
    /\ taskgraph_to_tree(1)

CodecDecode ==
    /\ next_id_ = 2
    /\ ret.op = "taskgraph_to_tree"
    /\ tree_to_taskgraph(ret.val)

NextCodec ==
    \/ CodecCreate
    \/ CodecTree
    \/ CodecAddTask
    \/ CodecAddDependency
    \/ CodecEncode
    \/ CodecDecode

SpecCodec == Init /\ [][NextCodec]_vars

----------------------------------------------------------------------------
(* Threads that call create_taskflow on the same bridge concurrently.  The   *)
(* class holds no lock, so the statements of the calls interleave; the       *)
(* accesses to next_id_ and to the maps are then data races.  Of what a      *)
(* build can do with them the model has: next_id_++ as a load followed by    *)
(* a store, and an insertion into a map that either takes effect or is       *)
(* lost when another thread is inserting into the same map.                  *)

At(t, pc) == callers[t].pc = pc

Goto(t, pc) == callers' = [callers EXCEPT ![t].pc = pc]

\* some other thread is at the same statement
Racing(t, pc) == \E u \in Callers \ {t} : At(u, pc)

\* a thread enters create_taskflow
RaceCall(t) ==
    /\ At(t, "idle")
    /\ Len(allocated) + Cardinality({u \in Callers : ~At(u, "idle")}) < MaxCalls
    /\ Goto(t, "load")
    /\ UNCHANGED <<bridge, executor_, ret, allocated, inserted>>

\* int id = next_id_++;  the load
RaceLoadNextId(t) ==
    /\ At(t, "load")
    /\ callers' = [callers EXCEPT ![t] = [pc |-> "store", id |-> next_id_]]
    /\ UNCHANGED <<bridge, executor_, ret, allocated, inserted>>

\* int id = next_id_++;  the store
RaceStoreNextId(t) ==
    /\ At(t, "store")
    /\ next_id_' = callers[t].id + 1
    /\ Goto(t, "taskflows")
    /\ UNCHANGED <<taskflows_, task_handles_, atomspaces_, atoms_, tensors_,
                   executor_, ret, allocated, inserted>>

\* taskflows_[id] = tf::Taskflow();
RaceInsertTaskflow(t) ==
    /\ At(t, "taskflows")
    /\ \E lost \in (IF Racing(t, "taskflows") THEN BOOLEAN ELSE {FALSE}) :
          taskflows_' = IF lost THEN taskflows_
                        ELSE Put(taskflows_, callers[t].id, EmptyTaskflow)
    /\ Goto(t, "handles")
    /\ UNCHANGED <<next_id_, task_handles_, atomspaces_, atoms_, tensors_,
                   executor_, ret, allocated, inserted>>

\* task_handles_[id] = std::map<int, tf::Task>();
RaceInsertHandles(t) ==
    /\ At(t, "handles")
    /\ \E lost \in (IF Racing(t, "handles") THEN BOOLEAN ELSE {FALSE}) :
          task_handles_' = IF lost THEN task_handles_
                           ELSE Put(task_handles_, callers[t].id, NoEntry)
    /\ Goto(t, "return")
    /\ UNCHANGED <<next_id_, taskflows_, atomspaces_, atoms_, tensors_,
                   executor_, ret, allocated, inserted>>

\* return id;
RaceReturn(t) ==
    /\ At(t, "return")
    /\ ret' = Returned("create_taskflow", callers[t].id)
    /\ allocated' = Append(allocated, callers[t].id)
    /\ inserted' = Put(inserted, callers[t].id, {})
    /\ callers' = [callers EXCEPT ![t] = NotCalling]
    /\ UNCHANGED <<bridge, executor_>>

NextRace ==
    \E t \in Callers :
        \/ RaceCall(t)
        \/ RaceLoadNextId(t)
        \/ RaceStoreNextId(t)
        \/ RaceInsertTaskflow(t)
        \/ RaceInsertHandles(t)
        \/ RaceReturn(t)

SpecRace == Init /\ [][NextRace]_vars

----------------------------------------------------------------------------
(* Properties *)

Range(f) == {f[x] : x \in DOMAIN f}

Succs(tf, S) == {b \in Tasks(tf) : \E a \in S : CopiesIn(<<a, b>>, tf.succ) > 0}

\* the tasks reachable from S along precede-edges, S included
RECURSIVE Closure(_, _)
Closure(tf, S) ==
    LET n == S \cup Succs(tf, S) IN IF n = S THEN S ELSE Closure(tf, n)

HasCycle(tf) == \E t \in Tasks(tf) : t \in Closure(tf, Succs(tf, {t}))

\* the parent the specification gives position i of a level sequence: the
\* largest j < i with seq[j] = seq[i] - 1 (0-based positions)
HasParent(seq, i) == \E j \in 0..(i - 1) : seq[j + 1] = seq[i + 1] - 1

ParentOf(seq, i) ==
    CHOOSE j \in 0..(i - 1) :
        /\ seq[j + 1] = seq[i + 1] - 1
        /\ \A k \in (j + 1)..(i - 1) : seq[k + 1] # seq[i + 1] - 1

\* C1: the first identifier returned by an allocating operation is 1, and
\* every identifier returned is strictly greater than all returned before
\* it (so no two calls return the same one), whatever the entity kinds
C1_IdentifiersIncrease ==
    /\ Len(allocated) > 0 => allocated[1] = 1
    /\ \A i \in 1..Len(allocated) : \A j \in 1..Len(allocated) :
           i < j => allocated[i] < allocated[j]
    /\ ret.op \in {"create_taskflow", "create_atomspace", "add_atom",
                   "create_tensor", "tree_to_taskgraph"} /\ ret.err = "ok"
           => ret.val = allocated[Len(allocated)]

\* C1 witness: four identifiers handed out to a taskflow, an atomspace, an
\* atom and a tensor
C1_Witness ==
    /\ Len(allocated) = 4
    /\ DOMAIN taskflows_ # {}
    /\ DOMAIN atoms_ # {}
    /\ DOMAIN tensors_ # {}

\* C2: in a run of a taskflow that is not modified while it runs, for every
\* edge add_dependency inserted, the `to` task has not started unless the
\* `from` task has completed
C2_EdgesOrderExecution ==
    \A g \in DOMAIN executor_ :
        ~executor_[g].raced =>
            \A e \in inserted[g] :
                Status(executor_[g], e[2]) # "idle" => Status(executor_[g], e[1]) = "done"

\* C2 witness: the diamond 1->2, 1->3, 2->4, 3->4 has been run and its last
\* node is executing after the other three have completed
C2_Witness ==
    \E g \in DOMAIN executor_ :
        /\ inserted[g] = {<<1, 2>>, <<1, 3>>, <<2, 4>>, <<3, 4>>}
        /\ DOMAIN task_handles_[g] = 1..4
        /\ executor_[g].st = [t \in 1..4 |-> IF t = 4 THEN "running" ELSE "done"]

C4_GraphsAcyclic == \A g \in DOMAIN taskflows_ : ~HasCycle(taskflows_[g])

\* C5: an add_dependency call whose edge closes a cycle (the `from` task is
\* reachable from the `to` task) fails with CycleDetected and leaves the
\* node and edge sets as they were
C5_CycleRejected ==
    [][\A g \in DOMAIN task_handles_ :
         \A from \in DOMAIN task_handles_[g], to \in DOMAIN task_handles_[g] :
           (/\ task_handles_[g][from] \in
                  Closure(taskflows_[g], {task_handles_[g][to]})
            /\ add_dependency(g, from, to))
           => (/\ ret'.err = "CycleDetected"
               /\ UNCHANGED <<taskflows_, task_handles_>>)]_vars

\* C6: add_task with a local id already present in the graph fails with
\* DuplicateNode and leaves the node under that id and the graph's tasks as
\* they were
C6_DuplicateRejected ==
    [][\A g \in DOMAIN taskflows_ : \A id \in DOMAIN task_handles_[g] :
         \A name \in Names :
           add_task(g, id, name)
           => (/\ ret'.err = "DuplicateNode"
               /\ UNCHANGED <<taskflows_, task_handles_>>)]_vars

\* C7: on an existing graph, add_dependency fails with "Task not found" when
\* from or to is not a node of it, adding no edge and no node; when both
\* are nodes it adds exactly one edge, from -> to, and changes nothing else
C7_DependencyNeedsBothNodes ==
    [][\A g \in DOMAIN task_handles_ : \A from \in LocalIds, to \in LocalIds :
         add_dependency(g, from, to)
         => IF from \notin DOMAIN task_handles_[g] \/ to \notin DOMAIN task_handles_[g]
            THEN /\ ret' = Thrown("add_dependency", "Task not found")
                 /\ UNCHANGED <<bridge, executor_, allocated>>
            ELSE /\ ret'.err = "ok"
                 /\ taskflows_' = [taskflows_ EXCEPT ![g].succ =
                        @ (+) SetToBag({<<task_handles_[g][from],
                                          task_handles_[g][to]>>})]
                 /\ UNCHANGED <<next_id_, task_handles_, atomspaces_, atoms_,
                                tensors_, allocated>>]_vars

\* C7 witness: a graph with two nodes and an edge between them, and a call
\* naming a node that does not exist has just failed
C7_Witness ==
    /\ ret = Thrown("add_dependency", "Task not found")
    /\ \E g \in DOMAIN taskflows_ :
          /\ BagCardinality(taskflows_[g].succ) = 1
          /\ DOMAIN task_handles_[g] # LocalIds

\* C8: add_task, add_dependency and execute_taskflow called with a handle
\* that no create_taskflow / tree_to_taskgraph call returned fail with
\* "Taskflow not found" and change nothing: no graph, node or edge appears,
\* no identifier is consumed, nothing is submitted to the executor
C8_UnknownGraphRejected ==
    [][\A g \in Handles \ Range(allocated) :
         (\/ \E id \in LocalIds, name \in Names : add_task(g, id, name)
          \/ \E from \in LocalIds, to \in LocalIds : add_dependency(g, from, to)
          \/ execute_taskflow(g))
         => (/\ ret'.err \in {"Taskflow not found: ", "Taskflow not found"}
             /\ UNCHANGED <<bridge, executor_, allocated, inserted>>)]_vars

\* C8 witness: a run on an unknown handle has just been refused while a
\* graph with a task exists
C8_Witness ==
    /\ ret = Thrown("execute_taskflow", "Taskflow not found")
    /\ \E g \in DOMAIN taskflows_ : Len(taskflows_[g].tasks) > 0

\* C9: tree_to_taskgraph(seq) creates one node per element, under the local
\* id equal to its position, and exactly the edges parent(i) -> i for the
\* positions i >= 1 that have a preceding element of depth seq[i] - 1, the
\* parent being the largest such position.  (Only steps that allocate an
\* identifier can be tree_to_taskgraph steps.)
C9_TreeWiresNearestParent ==
    [][next_id_' # next_id_ =>
       \A seq \in LevelSeqs(MaxSeqLen) :
         tree_to_taskgraph(seq)
         => LET id == ret'.val
                n == Len(seq)
            IN  /\ ret'.err = "ok"
                /\ id \in DOMAIN taskflows_' /\ id \notin DOMAIN taskflows_
                /\ Len(taskflows_'[id].tasks) = n
                /\ task_handles_'[id] = [i \in 0..(n - 1) |-> i + 1]
                /\ taskflows_'[id].succ =
                       SetToBag({<<ParentOf(seq, i) + 1, i + 1>> :
                                   i \in {k \in 1..(n - 1) : HasParent(seq, k)}})]_vars

\* C9 witness: the graph decoded from [0,1,1,2]: 0 -> 1, 0 -> 2, 2 -> 3
C9_Witness ==
    /\ ret.op = "tree_to_taskgraph"
    /\ \E g \in DOMAIN taskflows_ :
          /\ taskflows_[g].tasks = <<"task_0", "task_1", "task_2", "task_3">>
          /\ task_handles_[g] = [i \in 0..3 |-> i + 1]
          /\ taskflows_[g].succ = SetToBag({<<1, 2>>, <<1, 3>>, <<3, 4>>})

Malformed(seq) ==
    \/ \E i \in 1..(Len(seq) - 1) : ~HasParent(seq, i)
    \/ Len(seq) > 0 /\ \E i \in 1..Len(seq) : seq[i] < seq[1]

\* C10: tree_to_taskgraph fails with MalformedSequence, returning no handle,
\* when some position i > 0 has no earlier element of depth seq[i] - 1 or
\* the first element is not the minimum depth
C10_MalformedRejected ==
    [][next_id_' # next_id_ =>
       \A seq \in LevelSeqs(MaxSeqLen) :
         (Malformed(seq) /\ tree_to_taskgraph(seq))
         => (/\ ret'.err = "MalformedSequence"
             /\ UNCHANGED <<taskflows_, task_handles_>>)]_vars

\* the number of precede-edges that end in task t
InDegree(tf, t) ==
    SumOver([a \in Tasks(tf) |-> CopiesIn(<<a, t>>, tf.succ)], Tasks(tf))

Roots(tf) == {t \in Tasks(tf) : InDegree(tf, t) = 0}

\* a single rooted tree: exactly one task without an in-edge, every other
\* task with exactly one, and all of them below the root
IsRootedTree(tf) ==
    /\ Cardinality(Roots(tf)) = 1
    /\ \A t \in Tasks(tf) : InDegree(tf, t) <= 1
    /\ ~HasCycle(tf)

\* more than one root, or a task with more than one parent
NotATree(tf) ==
    \/ Cardinality(Roots(tf)) > 1
    \/ \E t \in Tasks(tf) : InDegree(tf, t) > 1

\* same number of tasks and the same edges up to a renaming of the tasks
Isomorphic(tf1, tf2) ==
    /\ Len(tf1.tasks) = Len(tf2.tasks)
    /\ \E f \in [Tasks(tf1) -> Tasks(tf2)] :
          /\ \A a \in Tasks(tf1), b \in Tasks(tf1) : a # b => f[a] # f[b]
          /\ \A a \in Tasks(tf1), b \in Tasks(tf1) :
                CopiesIn(<<a, b>>, tf1.succ) = CopiesIn(<<f[a], f[b]>>, tf2.succ)

\* the local ids of the children of task t in graph g
ChildIds(g, t) ==
    {l \in DOMAIN task_handles_[g] :
        CopiesIn(<<t, task_handles_[g][l]>>, taskflows_[g].succ) > 0}

\* the depths met by a pre-order walk of graph g from task t, which is at
\* depth d, children in ascending local-id order
RECURSIVE PreOrder(_, _, _), PreOrderAll(_, _, _)
PreOrder(g, t, d) == <<d>> \o PreOrderAll(g, ChildIds(g, t), d + 1)

PreOrderAll(g, ids, d) ==
    IF ids = {} THEN <<>>
    ELSE LET l == CHOOSE m \in ids : \A k \in ids : m <= k
         IN  PreOrder(g, task_handles_[g][l], d) \o PreOrderAll(g, ids \ {l}, d)

\* the level sequence the specification gives a rooted-tree graph (root at
\* depth 0)
LevelSequenceOf(g) ==
    PreOrder(g, CHOOSE t \in Roots(taskflows_[g]) : TRUE, 0)

\* C11: when the graph under handle 1 is a single rooted tree, decoding
\* the level sequence that taskgraph_to_tree returned for it gives a graph
\* (handle 2) with the same number of nodes and the same parent-of relation
\* up to renaming.  (In SpecCodec the second handle is only ever returned by
\* the decoding of an encoding of graph 1, with nothing in between.)
C11_TreeRoundTrip ==
    (/\ ret = Returned("tree_to_taskgraph", 2)
     /\ IsRootedTree(taskflows_[1]))
    => Isomorphic(taskflows_[1], taskflows_[2])

\* C12: on a rooted-tree graph taskgraph_to_tree returns the depths of the
\* nodes in pre-order from the root, children in ascending local-id order:
\* one depth per node, and [0,1,1,2] for the graph decoded from [0,1,1,2]
C12_EncodesPreOrderDepths ==
    [][\A g \in DOMAIN taskflows_ :
         (/\ ret'.op = "taskgraph_to_tree"
          /\ taskgraph_to_tree(g)
          /\ IsRootedTree(taskflows_[g]))
         => (/\ ret'.err = "ok"
             /\ ret'.val = LevelSequenceOf(g)
             /\ Len(ret'.val) = Len(taskflows_[g].tasks))]_vars

\* C13: taskgraph_to_tree fails with NotATree, returning no sequence, on a
\* graph with more than one root or with a node that has more than one
\* in-edge, such as the diamond
C13_NonTreeRejected ==
    [][\A g \in DOMAIN taskflows_ :
         (/\ ret'.op = "taskgraph_to_tree"
          /\ taskgraph_to_tree(g)
          /\ NotATree(taskflows_[g]))
         => ret'.err = "NotATree"]_vars

\* C14: while a run of graph g is in flight, an add_task or add_dependency
\* call on g fails with GraphInUse and leaves the tasks, the edges and the
\* local-id map of every graph as they were
C14_InFlightMutationRejected ==
    [][\A g \in DOMAIN executor_ :
         (/\ executor_[g].active
          /\ \/ \E id \in LocalIds, name \in Names : add_task(g, id, name)
             \/ \E from \in LocalIds, to \in LocalIds : add_dependency(g, from, to))
         => (/\ ret'.err = "GraphInUse"
             /\ UNCHANGED <<taskflows_, task_handles_>>)]_vars

\* C15: when threads call create_taskflow concurrently, no two calls
\* return the same identifier, and once a call has returned, a taskflow and
\* a handle map are registered under the identifier it returned
C15_ConcurrentAllocationAtomic ==
    /\ \A i \in 1..Len(allocated) : \A j \in 1..Len(allocated) :
          i # j => allocated[i] # allocated[j]
    /\ \A i \in 1..Len(allocated) :
          /\ allocated[i] \in DOMAIN taskflows_
          /\ allocated[i] \in DOMAIN task_handles_

\* C16: a run of a graph with a cycle fails with CycleDetected when no
\* eligible node remains while nodes are unexecuted.  execute_taskflow only
\* submits the run, so the failure can reach the caller through the wait
\* alone: a wait_taskflow that returned normally leaves no run that ended on
\* a cycle
C16_CycleReported ==
    (ret.op = "wait_taskflow" /\ ret.err = "ok")
    => \A g \in DOMAIN executor_ :
          ~(/\ ~executor_[g].active
            /\ executor_[g].outcome = "CycleDetected"
            /\ HasCycle(taskflows_[g]))

\* C17: when wait_taskflow has returned after a run of an acyclic graph
\* that was not changed while it ran, the tasks that ran are exactly the
\* nodes registered in the graph, those its local ids refer to: each of
\* them has run (once: a task leaves "idle" once in a run), and nothing
\* else has
C17_RegisteredNodesRunOnce ==
    (ret.op = "wait_taskflow" /\ ret.err = "ok")
    => \A g \in DOMAIN executor_ :
          (~HasCycle(taskflows_[g]) /\ ~executor_[g].raced)
          => {t \in Tasks(taskflows_[g]) : Status(executor_[g], t) = "done"}
                = Range(task_handles_[g])

\* C19: the tasks a taskflow holds are in one-to-one correspondence with
\* the entries of its local-id map: every task is the handle of exactly
\* one local id, so there are as many tasks as local ids
C19_TasksMatchLocalIds ==
    \A g \in DOMAIN taskflows_ :
        /\ g \in DOMAIN task_handles_
        /\ Range(task_handles_[g]) = Tasks(taskflows_[g])
        /\ Cardinality(DOMAIN task_handles_[g]) = Len(taskflows_[g].tasks)

\* C18: whatever the sequence, the graph tree_to_taskgraph has built is a
\* forest whose edges go from a lower local id to a higher one: every edge
\* joins two of its nodes, every node has at most one in-edge, node 0 has
\* none, there is no cycle, and the call did not fail
C18_TreeBuildsForest ==
    ret.op = "tree_to_taskgraph"
    => /\ ret.err = "ok"
       /\ LET tf == taskflows_[ret.val]
              handles == task_handles_[ret.val]
          IN  /\ \A e \in DOMAIN tf.succ :
                    \E j \in DOMAIN handles, i \in DOMAIN handles :
                       j < i /\ e = <<handles[j], handles[i]>>
              /\ \A t \in Tasks(tf) : InDegree(tf, t) <= 1
              /\ 0 \in DOMAIN handles => InDegree(tf, handles[0]) = 0
              /\ ~HasCycle(tf)

\* C18 witness: a sequence that is not well formed has been decoded into a
\* forest of two trees, one of them with an edge
C18_Witness ==
    /\ ret.op = "tree_to_taskgraph"
    /\ Cardinality(Roots(taskflows_[ret.val])) = 2
    /\ BagCardinality(taskflows_[ret.val].succ) >= 1

\* C20: taskflows_ and task_handles_ have the same keys, all of them
\* identifiers already handed out (1 .. next_id_ - 1), in every state, the
\* states after failed calls included: the validity checks of add_task and
\* of add_dependency / taskgraph_to_tree agree on every handle
C20_RegistriesShareKeys ==
    /\ DOMAIN taskflows_ = DOMAIN task_handles_
    /\ DOMAIN taskflows_ \subseteq 1..(next_id_ - 1)

\* C20 witness: add_dependency on an unknown handle has just failed while a
\* graph with a task exists
C20_Witness ==
    /\ ret = Thrown("add_dependency", "Taskflow not found")
    /\ \E g \in DOMAIN taskflows_ : Len(taskflows_[g].tasks) > 0

====
